---- MODULE Spec2Model ----
(***************************************************************************)
(* Model of package adaptivepool: the streaming statistics (Stats) and the *)
(* AdaptivePool built on it (statistics mutex + atomic snapshot word).     *)
(*                                                                         *)
(* Numbers.  A float64 is modelled as an exact real number, written as a   *)
(* triple <<num, den, r>> that stands for the non-negative r-th root       *)
(* (r = 1 or r = 2) of num/den; r = 1 is the rational itself.  NaN is      *)
(* <<0, 0, 1>>.  A float32 is a number on the grid of multiples of 1/Q32,  *)
(* so the conversion float32(x) really loses precision.  The 64-bit atomic *)
(* word is two HalfBits-wide patterns.                                     *)
(***************************************************************************)
EXTENDS Integers, Sequences, FiniteSets, Bags, TLC

(* ------------------------------ bounds --------------------------------- *)

\* number of goroutines using one pool
NumThreads == 2

\* number of Put calls the goroutines may start altogether
MaxPuts == 3

\* fractional bits of the reduced-precision (float32) numbers
F32FracBits == 4

\* width of one half of the atomic word (32 in the program)
HalfBits == 12

\* lengths of the slices the goroutines release
Sizes == {10, 20}

\* the maxN arguments given to New
MaxNArgs == {0, 2}

Threads == 1..NumThreads

\* number of calls made on a Stats value used on its own
MaxOps == 5

(* --------------------------- real arithmetic --------------------------- *)

RECURSIVE GCD(_, _)
GCD(a, b) == IF b = 0 THEN a ELSE GCD(b, a % b)

AbsInt(i) == IF i < 0 THEN -i ELSE i

RECURSIVE Pow2(_)
Pow2(k) == IF k = 0 THEN 1 ELSE 2 * Pow2(k - 1)

\* floor of the square root of a natural number, by bisection on lo..hi
RECURSIVE ISqrtIn(_, _, _)
ISqrtIn(m, lo, hi) ==
    IF lo >= hi THEN lo
    ELSE LET mid == (lo + hi + 1) \div 2
         IN  IF mid * mid <= m THEN ISqrtIn(m, mid, hi)
                               ELSE ISqrtIn(m, lo, mid - 1)

ISqrt(m) == ISqrtIn(m, 0, IF m < 46340 THEN m ELSE 46340)

NaN == <<0, 0, 1>>

IsNaN(a) == a[2] = 0

\* the rational num/den in lowest terms with a positive denominator
Rat(num, den) ==
    IF den = 0 THEN NaN
    ELSE LET g == GCD(AbsInt(num), AbsInt(den))
             sg == IF den < 0 THEN -1 ELSE 1
         IN  <<sg * (num \div g), sg * (den \div g), 1>>

Num(i) == <<i, 1, 1>>

\* float64 addition, subtraction, multiplication, division; NaN propagates
\* and x/0 is not a number of the model (it is never reached: Push divides
\* by n after n++)
Add(a, b) ==
    IF IsNaN(a) \/ IsNaN(b) THEN NaN
    ELSE Rat(a[1] * b[2] + b[1] * a[2], a[2] * b[2])

Sub(a, b) ==
    IF IsNaN(a) \/ IsNaN(b) THEN NaN
    ELSE Rat(a[1] * b[2] - b[1] * a[2], a[2] * b[2])

Mul(a, b) ==
    IF IsNaN(a) \/ IsNaN(b) THEN NaN
    ELSE Rat(a[1] * b[1], a[2] * b[2])

Div(a, b) ==
    IF IsNaN(a) \/ IsNaN(b) THEN NaN
    ELSE Rat(a[1] * b[2], a[2] * b[1])

\* math.Abs
Abs(a) == IF IsNaN(a) THEN NaN ELSE <<AbsInt(a[1]), a[2], a[3]>>

\* math.FMA(x, y, z) = x*y + z
FMA(a, b, c) == Add(Mul(a, b), c)

\* a <= b on float64; every comparison with NaN is false
Le(a, b) ==
    /\ ~IsNaN(a)
    /\ ~IsNaN(b)
    /\ a[1] * b[2] <= b[1] * a[2]

\* math.Sqrt of a non-negative rational: exact when the rational is a
\* square, otherwise the symbolic root <<num, den, 2>>
Sqrt(a) ==
    IF IsNaN(a) \/ a[1] < 0 THEN NaN
    ELSE LET rn == ISqrt(a[1])
             rd == ISqrt(a[2])
         IN  IF rn * rn = a[1] /\ rd * rd = a[2]
             THEN <<rn, rd, 1>>
             ELSE <<a[1], a[2], 2>>

\* a < b on float64; every comparison with NaN is false
Lt(a, b) ==
    /\ ~IsNaN(a)
    /\ ~IsNaN(b)
    /\ a[1] * b[2] < b[1] * a[2]

\* int(x) for a non-negative rational: truncation
Trunc(a) == a[1] \div a[2]

Q32 == Pow2(F32FracBits)

\* round num/den (den > 0, num >= 0) to the nearest integer, ties to even
RoundEven(num, den) ==
    LET q == num \div den
        twice == 2 * (num % den)
    IN  IF twice > den \/ (twice = den /\ q % 2 = 1) THEN q + 1 ELSE q

\* float32(x): the nearest number with F32FracBits fractional bits
ToFloat32(a) ==
    IF IsNaN(a) THEN NaN
    ELSE IF a[3] = 1
    THEN LET k == RoundEven(AbsInt(a[1]) * Q32, a[2])
         IN  Rat((IF a[1] < 0 THEN -k ELSE k), Q32)
    ELSE \* the root of a[1]/a[2]: k = floor(sqrt * Q32), then round
         LET m == a[1] * Q32 * Q32
             k == ISqrt(m \div a[2])
             up == (2 * k + 1) * (2 * k + 1) * a[2] <= 4 * m
         IN  Rat((IF up THEN k + 1 ELSE k), Q32)

\* float64(x) of a float32 is exact
ToFloat64(a) == a

(* ------------------------- stats.go: Stats ------------------------------ *)

\* type Stats struct: the zero value
ZeroStats ==
    [n |-> 0, actualN |-> 0, maxN |-> 0,
     oldM |-> Num(0), newM |-> Num(0), oldS |-> Num(0), newS |-> Num(0)]

\* PushN with the test for a disabled cap left out
PushN_capOnly(st) ==
    IF st.n < st.maxN THEN [st EXCEPT !.n = st.n + 1] ELSE st

\* PushN that still counts when n has reached the cap
PushN_atCap(st) ==
    IF st.n <= st.maxN \/ st.maxN < 1 THEN [st EXCEPT !.n = st.n + 1] ELSE st

\* Push, first statement: the capped count
PushN(st) ==
    IF st.n < st.maxN \/ st.maxN < 1 THEN [st EXCEPT !.n = st.n + 1] ELSE st

\* PushM that weighs the old mean by n, not by n-1
PushM_weightN(st, v) ==
    LET a == st.actualN + 1
    IN  IF a > 1
        THEN [st EXCEPT !.actualN = a,
                        !.newM = Div(FMA(st.oldM, Num(st.n), v), Num(st.n))]
        ELSE [st EXCEPT !.actualN = a, !.oldM = v, !.newM = v]

\* PushM that weighs by the lifetime count, as a plain running mean
PushM_lifetime(st, v) ==
    LET a == st.actualN + 1
    IN  IF a > 1
        THEN [st EXCEPT !.actualN = a,
                        !.newM = Div(FMA(st.oldM, Num(a - 1), v), Num(a))]
        ELSE [st EXCEPT !.actualN = a, !.oldM = v, !.newM = v]

\* PushM that divides by the lifetime count
PushM_overActualN(st, v) ==
    LET a == st.actualN + 1
    IN  IF a > 1
        THEN [st EXCEPT !.actualN = a,
                        !.newM = Div(FMA(st.oldM, Num(st.n - 1), v), Num(a))]
        ELSE [st EXCEPT !.actualN = a, !.oldM = v, !.newM = v]

\* Push, second statement: actualN++ and the mean
PushM(st, v) ==
    LET a == st.actualN + 1
    IN  IF a > 1
        THEN [st EXCEPT !.actualN = a,
                        !.newM = Div(FMA(st.oldM, Num(st.n - 1), v), Num(st.n))]
        ELSE [st EXCEPT !.actualN = a, !.oldM = v, !.newM = v]

\* PushS that squares the distance to the old mean
PushS_oldMean(st, v) ==
    IF st.actualN > 1
    THEN LET ns == FMA(Abs(Sub(v, st.oldM)), Abs(Sub(v, st.oldM)), st.oldS)
         IN  [st EXCEPT !.newS = ns, !.oldM = st.newM, !.oldS = ns]
    ELSE st

\* PushS with the second difference taken the other way round
PushS_swappedDiff(st, v) ==
    IF st.actualN > 1
    THEN LET ns == FMA(Sub(v, st.oldM), Sub(st.newM, v), st.oldS)
         IN  [st EXCEPT !.newS = ns, !.oldM = st.newM, !.oldS = ns]
    ELSE st

\* Push, rest of the first branch: the sum of squares and the old values
PushS(st, v) ==
    IF st.actualN > 1
    THEN LET ns == FMA(Abs(Sub(v, st.oldM)), Abs(Sub(v, st.newM)), st.oldS)
         IN  [st EXCEPT !.newS = ns, !.oldM = st.newM, !.oldS = ns]
    ELSE st

Push(st, v) == PushS(PushM(PushN(st), v), v)

\* Reset that keeps the cap
Reset_keepCap(st) == [ZeroStats EXCEPT !.maxN = st.maxN]

Reset(st) == ZeroStats

N(st) == st.n

\* math.Round of a rational: half away from zero
Round(a) ==
    LET q == (2 * AbsInt(a[1]) + a[2]) \div (2 * a[2])
    IN  IF a[1] < 0 THEN -q ELSE q

MaxN(st) == st.maxN

\* SetMaxN that does not cut n down to the new cap
SetMaxN_noCut(st, maxN) ==
    LET m == IF Lt(maxN, Num(1)) THEN 0 ELSE Round(maxN)
    IN  [st EXCEPT !.maxN = m]

\* SetMaxN that rounds before it compares with 1
SetMaxN_roundFirst(st, maxN) ==
    LET r == Round(maxN)
        m == IF r < 1 THEN 0 ELSE r
    IN  [st EXCEPT !.maxN = m,
                   !.n = IF m >= 1 /\ st.n > m THEN m ELSE st.n]

\* SetMaxN that truncates the cap
SetMaxN_trunc(st, maxN) ==
    LET m == IF Lt(maxN, Num(1)) THEN 0 ELSE Trunc(maxN)
    IN  [st EXCEPT !.maxN = m,
                   !.n = IF m >= 1 /\ st.n > m THEN m ELSE st.n]

\* SetMaxN that cuts n down also when it disables the cap
SetMaxN_cutAlways(st, maxN) ==
    LET m == IF Lt(maxN, Num(1)) THEN 0 ELSE Round(maxN)
    IN  [st EXCEPT !.maxN = m,
                   !.n = IF st.n > m THEN m ELSE st.n]

SetMaxN(st, maxN) ==
    LET m == IF Lt(maxN, Num(1)) THEN 0 ELSE Round(maxN)
    IN  [st EXCEPT !.maxN = m,
                   !.n = IF m >= 1 /\ st.n > m THEN m ELSE st.n]

Mean(st) == st.newM

\* StdDev that is defined when the capped count exceeds 1
StdDev_ifN(st) ==
    IF st.n > 1 THEN Sqrt(Div(st.newS, Num(st.actualN))) ELSE NaN

\* StdDev that divides by the capped count
StdDev_overN(st) ==
    IF st.actualN > 1 THEN Sqrt(Div(st.newS, Num(st.n))) ELSE NaN

StdDev(st) ==
    IF st.actualN > 1 THEN Sqrt(Div(st.newS, Num(st.actualN))) ELSE NaN

(* ------------------- the pool's item provider --------------------------- *)

\* Threshold of the NormalSlice provider
Threshold == Num(1)

\* a slice is its length and capacity; the nil slice
Nil == [len |-> -1, cap |-> -1]

Slice(l, c) == [len |-> l, cap |-> c]

\* NormalSlice.Sizeof: len(v), which is 0 for the nil slice
Sizeof(v) == IF v = Nil THEN Num(0) ELSE Num(v.len)

\* normalCreateSize without the test for a NaN stdDev
normalCreateSize_noNaN(mean, stdDev, thresh) ==
    Add(mean, Mul(thresh, stdDev))

normalCreateSize(mean, stdDev, thresh) ==
    IF IsNaN(stdDev) THEN mean ELSE Add(mean, Mul(thresh, stdDev))

\* normalAccept without the test for a NaN stdDev
normalAccept_noNaN(mean, stdDev, thresh, itemSize) ==
    LET sdThresh == Mul(thresh, stdDev)
    IN  /\ Le(Sub(mean, sdThresh), itemSize)
        /\ Le(itemSize, Add(mean, sdThresh))

\* normalAccept with exclusive bounds
normalAccept_strict(mean, stdDev, thresh, itemSize) ==
    LET sdThresh == Mul(thresh, stdDev)
    IN  \/ /\ Lt(Sub(mean, sdThresh), itemSize)
           /\ Lt(itemSize, Add(mean, sdThresh))
        \/ IsNaN(stdDev)

normalAccept(mean, stdDev, thresh, itemSize) ==
    LET sdThresh == Mul(thresh, stdDev)
    IN  \/ /\ Le(Sub(mean, sdThresh), itemSize)
           /\ Le(itemSize, Add(mean, sdThresh))
        \/ IsNaN(stdDev)

\* Create that makes the slice as long as its capacity
Create_fullLen(mean, stdDev) ==
    LET c == Trunc(normalCreateSize(mean, stdDev, Threshold))
    IN  Slice(c, c)

\* NormalSlice.Create: make([]T, 0, int(size))
Create(mean, stdDev) ==
    Slice(0, Trunc(normalCreateSize(mean, stdDev, Threshold)))

\* NormalSlice.Accept
Accept(mean, stdDev, itemSize) ==
    normalAccept(mean, stdDev, Threshold, itemSize)

(* ------------------------ the atomic snapshot --------------------------- *)

Half == Pow2(HalfBits)

SignBit == Pow2(HalfBits - 1)

\* the bit pattern of NaN: every magnitude bit set
NaNBits == SignBit - 1

\* math.Float32bits: sign bit and magnitude in units of 1/Q32
Float32bits(f) ==
    IF IsNaN(f) THEN NaNBits
    ELSE LET k == (AbsInt(f[1]) * Q32) \div f[2]
         IN  IF f[1] < 0 THEN SignBit + k ELSE k

\* math.Float32frombits
Float32frombits(b) ==
    LET k == b % SignBit
    IN  IF k = NaNBits THEN NaN
        ELSE IF b >= SignBit THEN Rat(-k, Q32) ELSE Rat(k, Q32)

\* encodeBits with the two halves exchanged
encodeBits_swapped(lo, hi) == Float32bits(hi) + Float32bits(lo) * Half

\* encodeWord that shifts the high pattern by half the width of a pattern
encodeWord_shortShift(lo32, hi32) == lo32 + hi32 * Pow2(HalfBits \div 2)

\* the word of encodeBits from the two bit patterns:
\* uint64(lo32) + uint64(hi32)<<32
encodeWord(lo32, hi32) == lo32 + hi32 * Half

\* the two bit patterns of decodeBits from the word:
\* uint32(u64 & (1<<32 - 1)) and uint32(u64 >> 32)
decodeWord(u64) == <<u64 % Half, (u64 \div Half) % Half>>

\* encodeBits: lo in the low half of the word, hi in the high half
encodeBits(lo, hi) == encodeWord(Float32bits(lo), Float32bits(hi))

\* decodeBits: <<lo, hi>>
decodeBits(u64) ==
    LET w == decodeWord(u64)
    IN  <<Float32frombits(w[1]), Float32frombits(w[2])>>

(* --------------------------- AdaptivePool ------------------------------- *)

VARIABLES
    stats,      \* p.stats
    statsMu,    \* p.statsMu: 0 when free, else the goroutine that holds it
    rStats,     \* p.rStats, the atomic word
    pool,       \* the idle items of the raw free list p.pool
    pc,         \* where each goroutine is
    x,          \* Put's argument
    s,          \* Put's local s, the measured size
    mn32,       \* the local mn32 of writeThenRead
    sd32,       \* the local sd32 of writeThenRead
    mine,       \* history: p.stats right after the goroutine's own Push
    puts,       \* history: the number of Put calls made so far
    order,      \* history: the arguments of Put, in lock-acquisition order
    serial,     \* history: whole Pushes of the sizes in order, one at a time
    history,    \* history: p.stats at construction and after each whole Push
    published,  \* history: the float32 pairs of p.stats after each whole Push
    done        \* history: the Put or Stats call that returned in the last
                \* step, if any

\* the variables of the pool
poolVars == <<stats, statsMu, rStats, pool, pc, x, s, mn32, sd32, mine, puts,
              order, serial, history, published, done>>

\* a Stats value and a provider used on their own, outside any pool
VARIABLES
    st,         \* a Stats value
    twin,       \* history: a new(Stats) given the calls made on st since its
                \* construction or last Reset
    vals,       \* history: the values pushed to st since then
    nops,       \* history: the number of calls made on st
    everCap,    \* history: SetMaxN has enabled the cap since then
    resets,     \* history: the number of Reset calls made on st
    cleared,    \* history: MaxN() of st when Reset was last called
    lastOp,     \* history: the last call made on st
    conv,       \* the last encodeBits or decodeBits call and its way back
    call        \* the last call of normalAccept and normalCreateSize

unitVars ==
    <<st, twin, vals, nops, everCap, resets, cleared, lastOp, conv, call>>

\* a sequential caller of the pool: what its calls returned
VARIABLES
    handed,     \* history: for each Put made, the number of p.pool.Put calls
    got,        \* the item the last Get returned, and whether p.new made it
    held,       \* the Stats value the caller got from Stats, and where the
                \* value it calls methods on lives
    heldOps     \* history: the number of calls made on that value

seqVars == <<handed, got, held, heldOps>>

\* a ReaderBufferer, the reader it is given and the BufferedReader it makes
VARIABLES
    rdPool,     \* p.rdPool: the number of idle *bytes.Reader
    src,        \* the io.Reader or io.ReadCloser given to the ReaderBufferer
    closes,     \* history: the number of Close calls made on src
    out,        \* what Reader or ReadCloser returned
    bb,         \* the BufferedReader: reader, buf and release
    er,         \* a bytes.NewReader(nil) given every call made on bb since
                \* its first Close or Bytes
    res,        \* what the last call on bb returned
    want,       \* what the same call on er returned
    owned,      \* history: the buffers Bytes returned to the caller
    fin,        \* history: the Close and Bytes calls made on bb, in order
    ncalls,     \* history: the number of calls made on bb
    bufLog,     \* history: the buffers given to p.bufPool.Put, in order
    rdLog,      \* history: the readers given to p.rdPool.Put
    putLog      \* history: the slices given to ReaderBufferer.put

ioVars == <<rdPool, src, closes, out, bb, er, res, want, owned, fin, ncalls,
            bufLog, rdLog, putLog>>

vars == <<poolVars, unitVars, seqVars, ioVars>>

\* no call on st yet, no call of the provider functions yet
NoOp == [op |-> "none", arg |-> Num(0)]

NoDecision ==
    [mean |-> Num(0), stdDev |-> Num(0), thresh |-> Num(0),
     itemSize |-> Num(0), accept |-> FALSE, size |-> Num(0), made |-> FALSE]

\* no encodeBits or decodeBits call made yet
NoConv ==
    [op |-> "none", u |-> 0, lo |-> 0, hi |-> 0, u2 |-> 0, lo2 |-> 0,
     hi2 |-> 0]

UnitNew ==
    /\ st = ZeroStats
    /\ twin = ZeroStats
    /\ vals = <<>>
    /\ nops = 0
    /\ everCap = FALSE
    /\ resets = 0
    /\ cleared = 0
    /\ conv = NoConv
    /\ lastOp = NoOp
    /\ call = NoDecision

\* no Get and no Stats call made yet by the sequential caller
NoGet == [item |-> Nil, created |-> FALSE]

NoHeld == [at |-> "none", val |-> ZeroStats]

SeqNew ==
    /\ handed = <<>>
    /\ got = NoGet
    /\ held = NoHeld
    /\ heldOps = 0

\* a []byte: its bytes and its capacity; the nil slice has neither
Buf(data, c) == [data |-> data, cap |-> c, isNil |-> FALSE]

NilBuf == [data |-> <<>>, cap |-> 0, isNil |-> TRUE]

\* a *bytes.Reader after Reset(b): the bytes, the read index, and the index
\* of the rune read last (-1 when the last call was not ReadRune)
RdReset(rd, b) == [s |-> b, i |-> 0, prevRune |-> -1]

\* bytes.NewReader(nil)
newBytesReader == [s |-> <<>>, i |-> 0, prevRune |-> -1]

\* BufferedReader{}: the reader field is nil (open is FALSE), buf is nil
\* and release is nil
ZeroBufferedReader ==
    [open |-> FALSE, reader |-> newBytesReader, buf |-> NilBuf,
     release |-> FALSE]

\* what a call returned: a count (or position, or rune size), a byte or
\* rune, bytes, and an error: "nil", "EOF" or "err" for any other
Res(op, n, b, data, isNil, err) ==
    [op |-> op, n |-> n, b |-> b, data |-> data, isNil |-> isNil,
     err |-> err]

NoRes == Res("none", 0, 0, <<>>, FALSE, "nil")

\* no reader handed to the ReaderBufferer yet, and nothing returned by it
NoSrc == [data |-> <<>>, readErr |-> "nil", closer |-> "none", c0 |-> 0]

NoOut == [called |-> FALSE, br |-> FALSE, wraps |-> {}]

IoNew ==
    /\ rdPool = 0
    /\ src = NoSrc
    /\ closes = 0
    /\ out = NoOut
    /\ bb = ZeroBufferedReader
    /\ er = newBytesReader
    /\ res = NoRes
    /\ want = NoRes
    /\ owned = <<>>
    /\ fin = <<>>
    /\ ncalls = 0
    /\ bufLog = <<>>
    /\ rdLog = <<>>
    /\ putLog = <<>>

\* the slices the goroutines give to Put
Items == {Slice(l, l) : l \in Sizes}

\* the pair writeThenRead derives from the statistics
SnapOf(sts) == <<ToFloat32(Mean(sts)), ToFloat32(StdDev(sts))>>

\* the record of a returned call: the method; for Put the argument, the
\* statistics right after its Push and the number of p.pool.Put calls it
\* made; for Stats the copy
Returned(op, v, own, h, cp) ==
    [op |-> op, x |-> v, mine |-> own, handed |-> h, copy |-> cp]

NoCall == Returned("none", Nil, ZeroStats, 0, ZeroStats)

\* New(p, maxN): init sets the provider, calls p.stats.SetMaxN(maxN) and
\* builds the raw free list
Init ==
    /\ \E m \in MaxNArgs : stats = SetMaxN(ZeroStats, Num(m))
    /\ statsMu = 0
    /\ rStats = 0
    /\ pool = {}
    /\ pc = [t \in Threads |-> "idle"]
    /\ x = [t \in Threads |-> Nil]
    /\ s = [t \in Threads |-> Num(0)]
    /\ mn32 = [t \in Threads |-> Num(0)]
    /\ sd32 = [t \in Threads |-> Num(0)]
    /\ mine = [t \in Threads |-> ZeroStats]
    /\ puts = 0
    /\ order = <<>>
    /\ serial = stats
    /\ history = {stats}
    /\ published = {}
    /\ done = NoCall
    /\ UnitNew
    /\ SeqNew
    /\ IoNew

\* Put, up to the call of writeThenRead: s := p.provider.Sizeof(x)
Put(t, v) ==
    /\ pc[t] = "idle"
    /\ puts < MaxPuts
    /\ puts' = puts + 1
    /\ pc' = [pc EXCEPT ![t] = "wtr_Lock"]
    /\ x' = [x EXCEPT ![t] = v]
    /\ s' = [s EXCEPT ![t] = Sizeof(v)]
    /\ done' = NoCall
    /\ UNCHANGED <<stats, statsMu, rStats, pool, mn32, sd32, mine, order,
                   serial, history, published>>
    /\ UNCHANGED <<unitVars, seqVars, ioVars>>

\* wtrLock as the TryLock variant: when the mutex is taken the call gives
\* up, the size is not pushed and the item is dropped
wtrLock_try(t) ==
    /\ pc[t] = "wtr_Lock"
    /\ IF statsMu = 0
       THEN /\ statsMu' = t
            /\ order' = Append(order, x[t])
            /\ serial' = Push(serial, s[t])
            /\ pc' = [pc EXCEPT ![t] = "wtr_PushM"]
            /\ done' = NoCall
            /\ UNCHANGED <<x, s>>
       ELSE /\ pc' = [pc EXCEPT ![t] = "idle"]
            /\ x' = [x EXCEPT ![t] = Nil]
            /\ s' = [s EXCEPT ![t] = Num(0)]
            /\ done' = Returned("Put", x[t], ZeroStats, 0, ZeroStats)
            /\ UNCHANGED <<statsMu, order, serial>>
    /\ UNCHANGED <<stats, rStats, pool, mn32, sd32, mine, history, published,
                   puts>>
    /\ UNCHANGED <<unitVars, seqVars, ioVars>>

\* wtrLock without mutual exclusion
wtrLock_noWait(t) ==
    /\ pc[t] = "wtr_Lock"
    /\ statsMu' = t
    /\ order' = Append(order, x[t])
    /\ serial' = Push(serial, s[t])
    /\ pc' = [pc EXCEPT ![t] = "wtr_PushM"]
    /\ done' = NoCall
    /\ UNCHANGED <<stats, rStats, pool, x, s, mn32, sd32, mine, history,
                   published, puts>>
    /\ UNCHANGED <<unitVars, seqVars, ioVars>>

\* writeThenRead: p.statsMu.Lock()
wtrLock(t) ==
    /\ pc[t] = "wtr_Lock"
    /\ statsMu = 0
    /\ statsMu' = t
    /\ order' = Append(order, x[t])
    /\ serial' = Push(serial, s[t])
    /\ pc' = [pc EXCEPT ![t] = "wtr_PushM"]
    /\ done' = NoCall
    /\ UNCHANGED <<stats, rStats, pool, x, s, mn32, sd32, mine, history,
                   published, puts>>
    /\ UNCHANGED <<unitVars, seqVars, ioVars>>

\* writeThenRead: p.stats.Push(s), the counts and the mean
wtrPushM(t) ==
    /\ pc[t] = "wtr_PushM"
    /\ stats' = PushM(PushN(stats), s[t])
    /\ pc' = [pc EXCEPT ![t] = "wtr_PushS"]
    /\ done' = NoCall
    /\ UNCHANGED <<statsMu, rStats, pool, x, s, mn32, sd32, mine, puts, order,
                   serial, history, published>>
    /\ UNCHANGED <<unitVars, seqVars, ioVars>>

\* writeThenRead: p.stats.Push(s), the sum of squares; Push returns
wtrPushS(t) ==
    /\ pc[t] = "wtr_PushS"
    /\ stats' = PushS(stats, s[t])
    /\ mine' = [mine EXCEPT ![t] = stats']
    /\ history' = history \cup {stats'}
    /\ published' = published \cup {SnapOf(stats')}
    /\ pc' = [pc EXCEPT ![t] = "wtr_Store"]
    /\ done' = NoCall
    /\ UNCHANGED <<statsMu, rStats, pool, x, s, mn32, sd32, puts, order,
                   serial>>
    /\ UNCHANGED <<unitVars, seqVars, ioVars>>

\* wtrStore that keeps the mutex until Put returns
wtrStore_keepLock(t) ==
    /\ pc[t] = "wtr_Store"
    /\ LET m == ToFloat32(Mean(stats))
           d == ToFloat32(StdDev(stats))
       IN  /\ mn32' = [mn32 EXCEPT ![t] = m]
           /\ sd32' = [sd32 EXCEPT ![t] = d]
           /\ rStats' = encodeBits(m, d)
    /\ pc' = [pc EXCEPT ![t] = "Put_Accept"]
    /\ done' = NoCall
    /\ UNCHANGED <<stats, statsMu, pool, x, s, mine, puts, order, serial,
                   history, published>>
    /\ UNCHANGED <<unitVars, seqVars, ioVars>>

\* wtrStore that stores the two halves of the word separately and is
\* interrupted after the low half
wtrStore_torn(t) ==
    /\ pc[t] = "wtr_Store"
    /\ LET m == ToFloat32(Mean(stats))
           d == ToFloat32(StdDev(stats))
       IN  /\ mn32' = [mn32 EXCEPT ![t] = m]
           /\ sd32' = [sd32 EXCEPT ![t] = d]
           /\ rStats' = Float32bits(m) + (rStats \div Half) * Half
    /\ statsMu' = 0
    /\ pc' = [pc EXCEPT ![t] = "Put_Accept"]
    /\ done' = NoCall
    /\ UNCHANGED <<stats, pool, x, s, mine, puts, order, serial, history,
                   published>>
    /\ UNCHANGED <<unitVars, seqVars, ioVars>>

\* writeThenRead: mn32, sd32 := ...; p.rStats.Store(encodeBits(mn32, sd32));
\* it returns float64(mn32), float64(sd32) and the deferred Unlock runs
wtrStore(t) ==
    /\ pc[t] = "wtr_Store"
    /\ LET m == ToFloat32(Mean(stats))
           d == ToFloat32(StdDev(stats))
       IN  /\ mn32' = [mn32 EXCEPT ![t] = m]
           /\ sd32' = [sd32 EXCEPT ![t] = d]
           /\ rStats' = encodeBits(m, d)
    /\ statsMu' = 0
    /\ pc' = [pc EXCEPT ![t] = "Put_Accept"]
    /\ done' = NoCall
    /\ UNCHANGED <<stats, pool, x, s, mine, puts, order, serial, history,
                   published>>
    /\ UNCHANGED <<unitVars, seqVars, ioVars>>

\* PutAccept that decides on the snapshot as it is now, not on the pair
\* writeThenRead returned
PutAccept_snapshot(t) ==
    /\ pc[t] = "Put_Accept"
    /\ LET d == decodeBits(rStats)
           ok == Accept(ToFloat64(d[1]), ToFloat64(d[2]), s[t])
       IN  /\ pool' = IF ok THEN pool \cup {x[t]} ELSE pool
           /\ done' = Returned("Put", x[t], mine[t], (IF ok THEN 1 ELSE 0),
                               ZeroStats)
    /\ pc' = [pc EXCEPT ![t] = "idle"]
    /\ x' = [x EXCEPT ![t] = Nil]
    /\ s' = [s EXCEPT ![t] = Num(0)]
    /\ mn32' = [mn32 EXCEPT ![t] = Num(0)]
    /\ sd32' = [sd32 EXCEPT ![t] = Num(0)]
    /\ mine' = [mine EXCEPT ![t] = ZeroStats]
    /\ UNCHANGED <<stats, statsMu, rStats, puts, order, serial, history,
                   published>>
    /\ UNCHANGED <<unitVars, seqVars, ioVars>>

\* Put, after writeThenRead: if p.provider.Accept(mean, stdDev, s) then
\* p.pool.Put(x); Put returns and its locals are gone
PutAccept(t) ==
    /\ pc[t] = "Put_Accept"
    /\ LET ok == Accept(ToFloat64(mn32[t]), ToFloat64(sd32[t]), s[t])
       IN  /\ pool' = IF ok THEN pool \cup {x[t]} ELSE pool
           /\ done' = Returned("Put", x[t], mine[t], (IF ok THEN 1 ELSE 0),
                               ZeroStats)
    /\ pc' = [pc EXCEPT ![t] = "idle"]
    /\ x' = [x EXCEPT ![t] = Nil]
    /\ s' = [s EXCEPT ![t] = Num(0)]
    /\ mn32' = [mn32 EXCEPT ![t] = Num(0)]
    /\ sd32' = [sd32 EXCEPT ![t] = Num(0)]
    /\ mine' = [mine EXCEPT ![t] = ZeroStats]
    /\ UNCHANGED <<stats, statsMu, rStats, puts, order, serial, history,
                   published>>
    /\ UNCHANGED <<unitVars, seqVars, ioVars>>

\* Get: p.pool.Get() hands out an idle item, or calls p.new
Get(t) ==
    /\ pc[t] = "idle"
    /\ \/ \E v \in pool :
             /\ pool' = pool \ {v}
             /\ done' = NoCall
             /\ pc' = pc
       \/ /\ pc' = [pc EXCEPT ![t] = "new"]
          /\ done' = NoCall
          /\ pool' = pool
    /\ UNCHANGED <<stats, statsMu, rStats, x, s, mn32, sd32, mine, puts, order,
                   serial, history, published>>
    /\ UNCHANGED <<unitVars, seqVars, ioVars>>

\* new that reads under the statistics mutex
new_locked(t) ==
    /\ pc[t] = "new"
    /\ statsMu = 0
    /\ LET d == decodeBits(rStats)
       IN  /\ mn32' = [mn32 EXCEPT ![t] = d[1]]
           /\ sd32' = [sd32 EXCEPT ![t] = d[2]]
    /\ pc' = [pc EXCEPT ![t] = "new_Create"]
    /\ done' = NoCall
    /\ UNCHANGED <<stats, statsMu, rStats, pool, x, s, mine, puts, order,
                   serial, history, published>>
    /\ UNCHANGED <<unitVars, seqVars, ioVars>>

\* new: mn32, sd32 := decodeBits(p.rStats.Load())
new(t) ==
    /\ pc[t] = "new"
    /\ LET d == decodeBits(rStats)
       IN  /\ mn32' = [mn32 EXCEPT ![t] = d[1]]
           /\ sd32' = [sd32 EXCEPT ![t] = d[2]]
    /\ pc' = [pc EXCEPT ![t] = "new_Create"]
    /\ done' = NoCall
    /\ UNCHANGED <<stats, statsMu, rStats, pool, x, s, mine, puts, order,
                   serial, history, published>>
    /\ UNCHANGED <<unitVars, seqVars, ioVars>>

\* new: return p.provider.Create(float64(mn32), float64(sd32)); the item
\* goes to the caller of Get and the locals are gone
newCreate(t) ==
    /\ pc[t] = "new_Create"
    /\ done' = NoCall
    /\ pc' = [pc EXCEPT ![t] = "idle"]
    /\ mn32' = [mn32 EXCEPT ![t] = Num(0)]
    /\ sd32' = [sd32 EXCEPT ![t] = Num(0)]
    /\ UNCHANGED <<stats, statsMu, rStats, pool, x, s, mine, puts, order,
                   serial, history, published>>
    /\ UNCHANGED <<unitVars, seqVars, ioVars>>

\* StatsLock without mutual exclusion
StatsLock_noWait(t) ==
    /\ pc[t] \in {"idle", "Stats_Lock"}
    /\ statsMu' = t
    /\ pc' = [pc EXCEPT ![t] = "Stats_Return"]
    /\ done' = NoCall
    /\ UNCHANGED <<stats, rStats, pool, x, s, mn32, sd32, mine, puts, order,
                   serial, history, published>>
    /\ UNCHANGED <<unitVars, seqVars, ioVars>>

\* Stats: p.statsMu.Lock(), by a goroutine that calls Stats now or that
\* called it before and waits
StatsLock(t) ==
    /\ pc[t] \in {"idle", "Stats_Lock"}
    /\ statsMu = 0
    /\ statsMu' = t
    /\ pc' = [pc EXCEPT ![t] = "Stats_Return"]
    /\ done' = NoCall
    /\ UNCHANGED <<stats, rStats, pool, x, s, mn32, sd32, mine, puts, order,
                   serial, history, published>>
    /\ UNCHANGED <<unitVars, seqVars, ioVars>>

\* StatsReturn without the deferred Unlock
StatsReturn_noUnlock(t) ==
    /\ pc[t] = "Stats_Return"
    /\ done' = Returned("Stats", Nil, ZeroStats, 0, stats)
    /\ pc' = [pc EXCEPT ![t] = "idle"]
    /\ UNCHANGED <<stats, statsMu, rStats, pool, x, s, mn32, sd32, mine, puts,
                   order, serial, history, published>>
    /\ UNCHANGED <<unitVars, seqVars, ioVars>>

\* Stats: return p.stats, a copy; the deferred Unlock
StatsReturn(t) ==
    /\ pc[t] = "Stats_Return"
    /\ done' = Returned("Stats", Nil, ZeroStats, 0, stats)
    /\ statsMu' = 0
    /\ pc' = [pc EXCEPT ![t] = "idle"]
    /\ UNCHANGED <<stats, rStats, pool, x, s, mn32, sd32, mine, puts, order,
                   serial, history, published>>
    /\ UNCHANGED <<unitVars, seqVars, ioVars>>

Next ==
    \E t \in Threads :
        \/ \E v \in Items : Put(t, v)
        \/ wtrLock(t)
        \/ wtrPushM(t)
        \/ wtrPushS(t)
        \/ wtrStore(t)
        \/ PutAccept(t)
        \/ Get(t)
        \/ new(t)
        \/ newCreate(t)
        \/ StatsLock(t)
        \/ StatsReturn(t)

Spec == Init /\ [][Next]_vars

\* Put(nil): the nil slice is an argument too
PutNil(t) == Put(t, Nil)

NextNil ==
    \/ Next
    \/ \E t \in Threads : PutNil(t)

SpecNil == Init /\ [][NextNil]_vars

(* ------------------- the pool under fair scheduling -------------------- *)

\* a pool made by New(p, 0) that no goroutine has used yet, and a
\* new(Stats)
UnitInit == Init /\ MaxN(stats) = 0

\* Stats is called and finds the mutex taken, or is preempted before Lock
StatsCall(t) ==
    /\ pc[t] = "idle"
    /\ pc' = [pc EXCEPT ![t] = "Stats_Lock"]
    /\ done' = NoCall
    /\ UNCHANGED <<stats, statsMu, rStats, pool, x, s, mn32, sd32, mine, puts,
                   order, serial, history, published>>
    /\ UNCHANGED <<unitVars, seqVars, ioVars>>

\* the slice the goroutines release in the runs under fair scheduling
LiveItem == Slice(10, 10)

LiveNext ==
    \E t \in Threads :
        \/ Put(t, LiveItem)
        \/ wtrLock(t)
        \/ wtrPushM(t)
        \/ wtrPushS(t)
        \/ wtrStore(t)
        \/ PutAccept(t)
        \/ Get(t)
        \/ new(t)
        \/ newCreate(t)
        \/ StatsCall(t)
        \/ StatsLock(t)
        \/ StatsReturn(t)

\* goroutine t moves from one program point to the next
Moves(t, from, to) ==
    /\ pc[t] = from
    /\ pc' = [pc EXCEPT ![t] = to]

\* goroutine t returns from Lock with the mutex
Acquires(t, from, to) ==
    /\ statsMu = 0
    /\ statsMu' = t
    /\ Moves(t, from, to)

\* the steps a goroutine takes on its own, and the two Lock calls
RunMoves ==
    {<<"wtr_PushM", "wtr_PushS">>, <<"wtr_PushS", "wtr_Store">>,
     <<"wtr_Store", "Put_Accept">>, <<"Put_Accept", "idle">>,
     <<"new", "new_Create">>, <<"new_Create", "idle">>,
     <<"Stats_Return", "idle">>}

LockMoves == {<<"wtr_Lock", "wtr_PushM">>, <<"Stats_Lock", "Stats_Return">>}

\* the scheduler runs every goroutine that can take a step, and
\* sync.Mutex hands the mutex to every goroutine that waits in Lock
Fairness ==
    \A t \in Threads :
        /\ \A m \in RunMoves : WF_pc(Moves(t, m[1], m[2]))
        /\ \A m \in LockMoves : SF_pc(Acquires(t, m[1], m[2]))

LiveSpec == UnitInit /\ [][LiveNext]_vars /\ Fairness

(* ----------------------- a Stats value on its own ----------------------- *)

\* the values pushed and the arguments given to SetMaxN
PushVals == {Num(1), Num(3), Num(9)}

SetArgs == {Num(-1), Rat(1, 2), Num(1), Rat(3, 2)}

\* st.Push(v)
StPush(v) ==
    /\ nops < MaxOps
    /\ st' = Push(st, v)
    /\ twin' = Push(twin, v)
    /\ vals' = Append(vals, v)
    /\ nops' = nops + 1
    /\ lastOp' = [op |-> "Push", arg |-> v]
    /\ UNCHANGED <<everCap, resets, cleared, conv, call, poolVars, seqVars,
                   ioVars>>

\* st.SetMaxN(m)
StSetMaxN(m) ==
    /\ nops < MaxOps
    /\ st' = SetMaxN(st, m)
    /\ twin' = SetMaxN(twin, m)
    /\ everCap' = (everCap \/ MaxN(st') >= 1)
    /\ nops' = nops + 1
    /\ lastOp' = [op |-> "SetMaxN", arg |-> m]
    /\ UNCHANGED <<vals, resets, cleared, conv, call, poolVars, seqVars,
                   ioVars>>

\* st.Reset()
StReset ==
    /\ nops < MaxOps
    /\ st' = Reset(st)
    /\ twin' = ZeroStats
    /\ vals' = <<>>
    /\ everCap' = FALSE
    /\ resets' = resets + 1
    /\ cleared' = MaxN(st)
    /\ nops' = nops + 1
    /\ lastOp' = [op |-> "Reset", arg |-> Num(0)]
    /\ UNCHANGED <<conv, call, poolVars, seqVars, ioVars>>

StatsNext ==
    \/ \E v \in PushVals : StPush(v)
    \/ \E m \in SetArgs : StSetMaxN(m)
    \/ StReset

StatsSpec == UnitInit /\ [][StatsNext]_vars

(* ---------------------- the provider functions -------------------------- *)

\* the arguments given to normalAccept and normalCreateSize
Means == {Num(0), Num(3), Num(10), Num(42)}

StdDevs == {NaN, Num(0), Num(3), Num(5)}

Threshs == {Num(0), Num(1), Num(7)}

ItemSizes ==
    {Num(0), Rat(699, 100), Num(7), Num(10), Num(13), Rat(1301, 100), Num(38)}

\* normalAccept(mean, stdDev, thresh, itemSize) and
\* normalCreateSize(mean, stdDev, thresh)
Decide(mean, stdDev, thresh, itemSize) ==
    /\ call' = [mean |-> mean, stdDev |-> stdDev, thresh |-> thresh,
                itemSize |-> itemSize,
                accept |-> normalAccept(mean, stdDev, thresh, itemSize),
                size |-> normalCreateSize(mean, stdDev, thresh),
                made |-> TRUE]
    /\ UNCHANGED <<st, twin, vals, nops, everCap, resets, cleared, lastOp,
                   conv, poolVars, seqVars, ioVars>>

PolicyNext ==
    \E mean \in Means, stdDev \in StdDevs, thresh \in Threshs,
       itemSize \in ItemSizes : Decide(mean, stdDev, thresh, itemSize)

PolicySpec == UnitInit /\ [][PolicyNext]_vars

(* ------------------- the pool used by one goroutine --------------------- *)

MaxSeqPuts == 6

MaxCopyPuts == 2

MaxHeldOps == 3

\* the values pushed to, and the caps set on, a Stats value got from Stats
HeldVals == {Num(9)}

HeldCaps == {Num(1)}

\* PoolPut whose snapshot is taken before the Push
PoolPut_staleSnapshot(v) ==
    LET sz == Sizeof(v)
        after == Push(stats, sz)
        m == ToFloat32(Mean(stats))
        d == ToFloat32(StdDev(stats))
        ok == Accept(ToFloat64(m), ToFloat64(d), sz)
    IN  /\ stats' = after
        /\ rStats' = encodeBits(m, d)
        /\ pool' = (IF ok THEN pool \cup {v} ELSE pool)
        /\ order' = Append(order, v)
        /\ puts' = puts + 1
        /\ done' = Returned("Put", v, after, (IF ok THEN 1 ELSE 0), ZeroStats)
        /\ UNCHANGED <<statsMu, pc, x, s, mn32, sd32, mine, serial, history,
                       published>>

\* Put, from its call to its return with no other goroutine running:
\* Sizeof, writeThenRead (Push, the float32 pair, the Store) and Accept
PoolPut(v) ==
    LET sz == Sizeof(v)
        after == Push(stats, sz)
        m == ToFloat32(Mean(after))
        d == ToFloat32(StdDev(after))
        ok == Accept(ToFloat64(m), ToFloat64(d), sz)
    IN  /\ stats' = after
        /\ rStats' = encodeBits(m, d)
        /\ pool' = (IF ok THEN pool \cup {v} ELSE pool)
        /\ order' = Append(order, v)
        /\ puts' = puts + 1
        /\ done' = Returned("Put", v, after, (IF ok THEN 1 ELSE 0), ZeroStats)
        /\ UNCHANGED <<statsMu, pc, x, s, mn32, sd32, mine, serial, history,
                       published>>

\* a Put call of the sequential caller
SeqPut(v) ==
    /\ PoolPut(v)
    /\ handed' = Append(handed, done'.handed)
    /\ got' = NoGet
    /\ UNCHANGED <<held, heldOps, unitVars, ioVars>>

\* Get whose new takes the snapshot out of the atomic word (Swap for Load)
SeqGet_swap ==
    /\ \/ \E v \in pool :
             /\ pool' = pool \ {v}
             /\ rStats' = rStats
             /\ got' = [item |-> v, created |-> FALSE]
       \/ LET dd == decodeBits(rStats)
          IN  /\ got' = [item |-> Create(ToFloat64(dd[1]), ToFloat64(dd[2])),
                         created |-> TRUE]
              /\ pool' = pool
              /\ rStats' = 0
    /\ done' = NoCall
    /\ UNCHANGED <<stats, statsMu, pc, x, s, mn32, sd32, mine, puts,
                   order, serial, history, published, handed, held, heldOps,
                   unitVars, ioVars>>

\* Get, from its call to its return: p.pool.Get() hands out an idle item or
\* calls p.new, which decodes the snapshot and calls Create
SeqGet ==
    /\ \/ \E v \in pool :
             /\ pool' = pool \ {v}
             /\ got' = [item |-> v, created |-> FALSE]
       \/ LET dd == decodeBits(rStats)
          IN  /\ got' = [item |-> Create(ToFloat64(dd[1]), ToFloat64(dd[2])),
                         created |-> TRUE]
              /\ pool' = pool
    /\ done' = NoCall
    /\ UNCHANGED <<stats, statsMu, rStats, pc, x, s, mn32, sd32, mine, puts,
                   order, serial, history, published, handed, held, heldOps,
                   unitVars, ioVars>>

\* Stats that hands out a pointer to p.stats
StatsValue_pointer(sts) == [at |-> "pool", val |-> sts]

\* Stats: return p.stats, the struct by value: the caller holds a copy
StatsValue(sts) == [at |-> "caller", val |-> sts]

\* Stats, from its call to its return
SeqStats ==
    /\ held' = StatsValue(stats)
    /\ got' = NoGet
    /\ done' = Returned("Stats", Nil, ZeroStats, 0, stats)
    /\ UNCHANGED <<stats, statsMu, rStats, pool, pc, x, s, mn32, sd32, mine,
                   puts, order, serial, history, published, handed, heldOps,
                   unitVars, ioVars>>

SeqNext ==
    \/ \E v \in Items : puts < MaxSeqPuts /\ SeqPut(v)
    \/ SeqGet
    \/ SeqStats

SeqSpec == UnitInit /\ [][SeqNext]_vars

\* the Stats value the caller's methods act on
HeldVal == IF held.at = "pool" THEN stats ELSE held.val

\* a method of *Stats called on the value got from Stats leaves nv there
HeldSet(nv) ==
    /\ held.at # "none"
    /\ heldOps < MaxHeldOps
    /\ heldOps' = heldOps + 1
    /\ held' = [held EXCEPT !.val = nv]
    /\ stats' = (IF held.at = "pool" THEN nv ELSE stats)
    /\ done' = NoCall
    /\ UNCHANGED <<statsMu, rStats, pool, pc, x, s, mn32, sd32, mine, puts,
                   order, serial, history, published, handed, got, unitVars,
                   ioVars>>

HeldPush(v) == HeldSet(Push(HeldVal, v))

HeldSetMaxN(m) == HeldSet(SetMaxN(HeldVal, m))

HeldReset == HeldSet(Reset(HeldVal))

CopyNext ==
    \/ \E v \in Items : puts < MaxCopyPuts /\ SeqPut(v)
    \/ SeqStats
    \/ \E v \in HeldVals : HeldPush(v)
    \/ \E m \in HeldCaps : HeldSetMaxN(m)
    \/ HeldReset

CopySpec == UnitInit /\ [][CopyNext]_vars

(* ------------------- the snapshot word on its own ----------------------- *)

\* bit patterns of a float32: zero, the smallest, 42, the largest below the
\* sign bit, the sign bit alone and with low bits, and the two largest
Patterns == {0, 1, 42, SignBit - 1, SignBit, SignBit + 1, Half - 2, Half - 1}

\* the words of TestEncoding, and the words made of two of the patterns
TestWords ==
    {0, Half * Half - 1, (Half - 1) * Pow2(HalfBits \div 2), 42 * Half + 42,
     1, Half}

Words == TestWords \cup {hi * Half + lo : lo \in Patterns, hi \in Patterns}

\* encodeBits(decodeBits(u64)), as TestEncoding calls them
DecodeThenEncode(u64) ==
    LET w == decodeWord(u64)
    IN  /\ conv' = [op |-> "decodeBits", u |-> u64, lo |-> w[1], hi |-> w[2],
                    u2 |-> encodeWord(w[1], w[2]), lo2 |-> w[1],
                    hi2 |-> w[2]]
        /\ UNCHANGED <<st, twin, vals, nops, everCap, resets, cleared, lastOp,
                       call, poolVars, seqVars, ioVars>>

\* decodeBits(encodeBits(lo32, hi32))
EncodeThenDecode(lo32, hi32) ==
    LET u64 == encodeWord(lo32, hi32)
        w == decodeWord(u64)
    IN  /\ conv' = [op |-> "encodeBits", u |-> u64, lo |-> lo32, hi |-> hi32,
                    u2 |-> u64, lo2 |-> w[1], hi2 |-> w[2]]
        /\ UNCHANGED <<st, twin, vals, nops, everCap, resets, cleared, lastOp,
                       call, poolVars, seqVars, ioVars>>

BitsNext ==
    \/ \E u64 \in Words : DecodeThenEncode(u64)
    \/ \E lo32 \in Patterns, hi32 \in Patterns : EncodeThenDecode(lo32, hi32)

BitsSpec == UnitInit /\ [][BitsNext]_vars

(* ------------------ ReaderBufferer and BufferedReader ------------------- *)

\* calls made on one BufferedReader
MaxCalls == 3

\* the contents of the readers handed in: nothing, or a two-byte rune
\* followed by a one-byte rune
Datas == {<<>>, <<195, 169, 65>>}

\* the capacity of the slice bufPool.Get() returns
BufCaps == {0, 4}

\* the argument lengths of Read, and the arguments of Seek
ReadLens == {0, 2}

Offsets == {-1, 0, 1}

SeekStart == 0

SeekCurrent == 1

SeekEnd == 2

Whences == {SeekStart, SeekCurrent, SeekEnd, 3}

\* what the reader's Read and the closer's Close end with
ReadErrs == {"nil", "errTest"}

CloseErrs == {"nil", "errTest2"}

\* bytes.MinRead, scaled: the room Buffer.ReadFrom asks for before each Read
MinRead == 2

Min(a, b) == IF a < b THEN a ELSE b

\* utf8.RuneSelf, utf8.RuneError
RuneSelf == 128

RuneError == 65533

\* utf8.DecodeRune of bytes whose first is not below RuneSelf, for runes of
\* at most two bytes
DecodeRune(q) ==
    IF /\ q[1] \in 194..223
       /\ Len(q) >= 2
       /\ q[2] \in 128..191
    THEN [r |-> (q[1] - 192) * 64 + (q[2] - 128), size |-> 2]
    ELSE [r |-> RuneError, size |-> 1]

\* the methods of bytes.Reader: the reader after the call and what the call
\* returned
Did(rd, r) == [rd |-> rd, res |-> r]

RdLen(r) ==
    Did(r, Res("Len", (IF r.i >= Len(r.s) THEN 0 ELSE Len(r.s) - r.i), 0,
               <<>>, FALSE, "nil"))

RdRead(r, k) ==
    IF r.i >= Len(r.s)
    THEN Did(r, Res("Read", 0, 0, <<>>, FALSE, "EOF"))
    ELSE LET n == Min(k, Len(r.s) - r.i)
         IN  Did([r EXCEPT !.prevRune = -1, !.i = r.i + n],
                 Res("Read", n, 0, SubSeq(r.s, r.i + 1, r.i + n), FALSE,
                     "nil"))

RdReadByte(r) ==
    IF r.i >= Len(r.s)
    THEN Did([r EXCEPT !.prevRune = -1],
             Res("ReadByte", 0, 0, <<>>, FALSE, "EOF"))
    ELSE Did([r EXCEPT !.prevRune = -1, !.i = r.i + 1],
             Res("ReadByte", 0, r.s[r.i + 1], <<>>, FALSE, "nil"))

RdUnreadByte(r) ==
    IF r.i <= 0
    THEN Did(r, Res("UnreadByte", 0, 0, <<>>, FALSE, "err"))
    ELSE Did([r EXCEPT !.prevRune = -1, !.i = r.i - 1],
             Res("UnreadByte", 0, 0, <<>>, FALSE, "nil"))

RdReadRune(r) ==
    IF r.i >= Len(r.s)
    THEN Did([r EXCEPT !.prevRune = -1],
             Res("ReadRune", 0, 0, <<>>, FALSE, "EOF"))
    ELSE IF r.s[r.i + 1] < RuneSelf
    THEN Did([r EXCEPT !.prevRune = r.i, !.i = r.i + 1],
             Res("ReadRune", 1, r.s[r.i + 1], <<>>, FALSE, "nil"))
    ELSE LET d == DecodeRune(SubSeq(r.s, r.i + 1, Len(r.s)))
         IN  Did([r EXCEPT !.prevRune = r.i, !.i = r.i + d.size],
                 Res("ReadRune", d.size, d.r, <<>>, FALSE, "nil"))

RdUnreadRune(r) ==
    IF r.i <= 0 \/ r.prevRune < 0
    THEN Did(r, Res("UnreadRune", 0, 0, <<>>, FALSE, "err"))
    ELSE Did([r EXCEPT !.prevRune = -1, !.i = r.prevRune],
             Res("UnreadRune", 0, 0, <<>>, FALSE, "nil"))

RdSeek(r, offset, whence) ==
    LET abs == IF whence = SeekStart THEN offset
               ELSE IF whence = SeekCurrent THEN r.i + offset
               ELSE Len(r.s) + offset
    IN  IF whence \notin {SeekStart, SeekCurrent, SeekEnd} \/ abs < 0
        THEN Did([r EXCEPT !.prevRune = -1],
                 Res("Seek", 0, 0, <<>>, FALSE, "err"))
        ELSE Did([r EXCEPT !.prevRune = -1, !.i = abs],
                 Res("Seek", abs, 0, <<>>, FALSE, "nil"))

\* WriteTo a writer that takes every byte
RdWriteTo(r) ==
    IF r.i >= Len(r.s)
    THEN Did([r EXCEPT !.prevRune = -1],
             Res("WriteTo", 0, 0, <<>>, FALSE, "nil"))
    ELSE Did([r EXCEPT !.prevRune = -1, !.i = Len(r.s)],
             Res("WriteTo", Len(r.s) - r.i, 0,
                 SubSeq(r.s, r.i + 1, Len(r.s)), FALSE, "nil"))

\* put that does not look at the capacity
put_anyCap(b) ==
    /\ putLog' = Append(putLog, b)
    /\ PoolPut(Slice(0, b.cap))
    /\ bufLog' = Append(bufLog, b)

\* ReaderBufferer.put: a slice that has capacity goes to bufPool, cut to
\* length zero
put(b) ==
    /\ putLog' = Append(putLog, b)
    /\ IF b.cap > 0
       THEN /\ PoolPut(Slice(0, b.cap))
            /\ bufLog' = Append(bufLog, b)
       ELSE UNCHANGED <<poolVars, bufLog>>

\* ReaderBufferer.release: the reader is emptied and pooled, the slice put
release(b, rd) ==
    /\ rdPool' = rdPool + 1
    /\ rdLog' = Append(rdLog, RdReset(rd, <<>>))
    /\ put(b)

\* what buf returns when it fails: no BufferedReader and an error wrapping
\* the errors of errs
Failed(errs) == [called |-> TRUE, br |-> FALSE, wraps |-> errs]

\* fmt.Errorf wraps the operands of %w that are errors: a nil one is not
Wrapped(errs) == errs \ {"nil"}

\* buf that returns on a failed read before it closes
buf_returnBeforeClose(data, readErr, closer, c0) ==
    LET had == Buf(<<>>, c0)
        n == Len(data)
        read == Buf(data, (IF c0 >= n + MinRead THEN c0
                           ELSE 2 * c0 + n + MinRead))
        closeErr == IF closer = "none" THEN "nil" ELSE closer
    IN  /\ ~out.called
        /\ src' = [data |-> data, readErr |-> readErr, closer |-> closer,
                   c0 |-> c0]
        /\ IF readErr # "nil"
           THEN /\ put(had)
                /\ out' = Failed(Wrapped({readErr}))
                /\ UNCHANGED <<closes, bb, rdPool>>
           ELSE /\ closes' = (IF closer # "none" THEN closes + 1 ELSE closes)
                /\ IF closer # "none" /\ readErr = "nil" /\ closeErr # "nil"
                   THEN /\ put(read)
                        /\ out' = Failed(Wrapped({closeErr}))
                        /\ UNCHANGED <<bb, rdPool>>
                   ELSE IF readErr # "nil" \/ closeErr # "nil"
                   THEN /\ put(read)
                        /\ out' = Failed(Wrapped({readErr, closeErr}))
                        /\ UNCHANGED <<bb, rdPool>>
                   ELSE /\ rdPool' = (IF rdPool > 0 THEN rdPool - 1 ELSE 0)
                        /\ bb' = [open |-> TRUE,
                                  reader |-> RdReset(newBytesReader, read.data),
                                  buf |-> read,
                                  release |-> TRUE]
                        /\ out' = [called |-> TRUE, br |-> TRUE, wraps |-> {}]
                        /\ UNCHANGED <<poolVars, bufLog, putLog>>
        /\ UNCHANGED <<er, res, want, owned, fin, ncalls, rdLog, unitVars,
                       seqVars>>

\* ReaderBufferer.buf(r, c): r holds data and its Read ends with readErr
\* ("nil" for io.EOF); c is nil (closer "none") or its Close returns closer;
\* c0 is the capacity of the slice taken from bufPool.  Buffer.ReadFrom
\* keeps the slice when it has room for the data and MinRead more, and
\* moves to a larger one otherwise.
buf(data, readErr, closer, c0) ==
    LET had == Buf(<<>>, c0)
        n == Len(data)
        read == Buf(data, (IF c0 >= n + MinRead THEN c0
                           ELSE 2 * c0 + n + MinRead))
        closeErr == IF closer = "none" THEN "nil" ELSE closer
    IN  /\ ~out.called
        /\ src' = [data |-> data, readErr |-> readErr, closer |-> closer,
                   c0 |-> c0]
        /\ IF readErr # "nil" /\ closer = "none"
           THEN /\ put(had)
                /\ out' = Failed(Wrapped({readErr}))
                /\ UNCHANGED <<closes, bb, rdPool>>
           ELSE /\ closes' = (IF closer # "none" THEN closes + 1 ELSE closes)
                /\ IF closer # "none" /\ readErr = "nil" /\ closeErr # "nil"
                   THEN /\ put(read)
                        /\ out' = Failed(Wrapped({closeErr}))
                        /\ UNCHANGED <<bb, rdPool>>
                   ELSE IF readErr # "nil" \/ closeErr # "nil"
                   THEN /\ put(read)
                        /\ out' = Failed(Wrapped({readErr, closeErr}))
                        /\ UNCHANGED <<bb, rdPool>>
                   ELSE /\ rdPool' = (IF rdPool > 0 THEN rdPool - 1 ELSE 0)
                        /\ bb' = [open |-> TRUE,
                                  reader |-> RdReset(newBytesReader, read.data),
                                  buf |-> read,
                                  release |-> TRUE]
                        /\ out' = [called |-> TRUE, br |-> TRUE, wraps |-> {}]
                        /\ UNCHANGED <<poolVars, bufLog, putLog>>
        /\ UNCHANGED <<er, res, want, owned, fin, ncalls, rdLog, unitVars,
                       seqVars>>

\* ReaderBufferer.Reader and ReaderBufferer.ReadCloser
RbReader(data, readErr, c0) == buf(data, readErr, "none", c0)

RbReadCloser(data, readErr, closeErr, c0) == buf(data, readErr, closeErr, c0)

\* Close that releases and leaves the fields as they were
Close_keepFields ==
    /\ out.br
    /\ ncalls < MaxCalls
    /\ ncalls' = ncalls + 1
    /\ IF bb.open
       THEN /\ release(bb.buf, bb.reader)
            /\ bb' = bb
       ELSE UNCHANGED <<bb, rdPool, rdLog, poolVars, bufLog, putLog>>
    /\ res' = Res("Close", 0, 0, <<>>, FALSE, "nil")
    /\ want' = NoRes
    /\ fin' = Append(fin, "Close")
    /\ UNCHANGED <<src, closes, out, er, owned, unitVars, seqVars>>

\* BufferedReader.Close
Close ==
    /\ out.br
    /\ ncalls < MaxCalls
    /\ ncalls' = ncalls + 1
    /\ IF bb.open
       THEN /\ release(bb.buf, bb.reader)
            /\ bb' = ZeroBufferedReader
       ELSE UNCHANGED <<bb, rdPool, rdLog, poolVars, bufLog, putLog>>
    /\ res' = Res("Close", 0, 0, <<>>, FALSE, "nil")
    /\ want' = NoRes
    /\ fin' = Append(fin, "Close")
    /\ UNCHANGED <<src, closes, out, er, owned, unitVars, seqVars>>

\* Bytes that releases the slice it returns
Bytes_releaseBuf ==
    /\ out.br
    /\ ncalls < MaxCalls
    /\ ncalls' = ncalls + 1
    /\ IF bb.open
       THEN /\ release(bb.buf, bb.reader)
            /\ res' = Res("Bytes", 0, 0, bb.buf.data, bb.buf.isNil, "nil")
            /\ owned' = Append(owned, bb.buf)
            /\ bb' = ZeroBufferedReader
       ELSE /\ res' = Res("Bytes", 0, 0, <<>>, TRUE, "nil")
            /\ UNCHANGED <<bb, owned, rdPool, rdLog, poolVars, bufLog,
                           putLog>>
    /\ want' = NoRes
    /\ fin' = Append(fin, "Bytes")
    /\ UNCHANGED <<src, closes, out, er, unitVars, seqVars>>

\* Bytes that releases and leaves the fields as they were
Bytes_keepFields ==
    /\ out.br
    /\ ncalls < MaxCalls
    /\ ncalls' = ncalls + 1
    /\ IF bb.open
       THEN /\ release(NilBuf, bb.reader)
            /\ res' = Res("Bytes", 0, 0, bb.buf.data, bb.buf.isNil, "nil")
            /\ owned' = Append(owned, bb.buf)
            /\ bb' = bb
       ELSE /\ res' = Res("Bytes", 0, 0, <<>>, TRUE, "nil")
            /\ UNCHANGED <<bb, owned, rdPool, rdLog, poolVars, bufLog,
                           putLog>>
    /\ want' = NoRes
    /\ fin' = Append(fin, "Bytes")
    /\ UNCHANGED <<src, closes, out, er, unitVars, seqVars>>

\* BufferedReader.Bytes
Bytes ==
    /\ out.br
    /\ ncalls < MaxCalls
    /\ ncalls' = ncalls + 1
    /\ IF bb.open
       THEN /\ release(NilBuf, bb.reader)
            /\ res' = Res("Bytes", 0, 0, bb.buf.data, bb.buf.isNil, "nil")
            /\ owned' = Append(owned, bb.buf)
            /\ bb' = ZeroBufferedReader
       ELSE /\ res' = Res("Bytes", 0, 0, <<>>, TRUE, "nil")
            /\ UNCHANGED <<bb, owned, rdPool, rdLog, poolVars, bufLog,
                           putLog>>
    /\ want' = NoRes
    /\ fin' = Append(fin, "Bytes")
    /\ UNCHANGED <<src, closes, out, er, unitVars, seqVars>>

\* a method that BufferedReader hands to its bytes.Reader: o is what the
\* call does on bb.reader, r what the method returns when bb.reader is nil.
\* From the first Close or Bytes on, er is a bytes.NewReader(nil) given the
\* same calls; e is what the call does on er.
Answer(o, r, e) ==
    /\ out.br
    /\ ncalls < MaxCalls
    /\ ncalls' = ncalls + 1
    /\ IF bb.open
       THEN /\ bb' = [bb EXCEPT !.reader = o.rd]
            /\ res' = o.res
            /\ want' = NoRes
            /\ er' = er
       ELSE /\ bb' = bb
            /\ res' = r
            /\ want' = e.res
            /\ er' = e.rd
    /\ UNCHANGED <<rdPool, src, closes, out, owned, fin, bufLog, rdLog, putLog,
                   poolVars, unitVars, seqVars>>

BbLen ==
    Answer(RdLen(bb.reader), Res("Len", 0, 0, <<>>, FALSE, "nil"), RdLen(er))

Read(k) ==
    Answer(RdRead(bb.reader, k), Res("Read", 0, 0, <<>>, FALSE, "EOF"),
           RdRead(er, k))

\* Seek of a BufferedReader whose reader is nil
SeekClosed(offset, whence) ==
    IF whence \notin {SeekStart, SeekCurrent, SeekEnd}
    THEN Res("Seek", 0, 0, <<>>, FALSE, "err")
    ELSE IF offset < 0
    THEN Res("Seek", 0, 0, <<>>, FALSE, "err")
    ELSE Res("Seek", 0, 0, <<>>, FALSE, "nil")

Seek(offset, whence) ==
    Answer(RdSeek(bb.reader, offset, whence), SeekClosed(offset, whence),
           RdSeek(er, offset, whence))

ReadByte ==
    Answer(RdReadByte(bb.reader), Res("ReadByte", 0, 0, <<>>, FALSE, "EOF"),
           RdReadByte(er))

UnreadByte ==
    Answer(RdUnreadByte(bb.reader),
           Res("UnreadByte", 0, 0, <<>>, FALSE, "err"), RdUnreadByte(er))

ReadRune ==
    Answer(RdReadRune(bb.reader), Res("ReadRune", 0, 0, <<>>, FALSE, "EOF"),
           RdReadRune(er))

UnreadRune ==
    Answer(RdUnreadRune(bb.reader),
           Res("UnreadRune", 0, 0, <<>>, FALSE, "err"), RdUnreadRune(er))

WriteTo ==
    Answer(RdWriteTo(bb.reader), Res("WriteTo", 0, 0, <<>>, FALSE, "nil"),
           RdWriteTo(er))

ReaderNext ==
    \/ \E data \in Datas, readErr \in ReadErrs, c0 \in BufCaps :
           RbReader(data, readErr, c0)
    \/ \E data \in Datas, readErr \in ReadErrs, closeErr \in CloseErrs,
          c0 \in BufCaps :
           RbReadCloser(data, readErr, closeErr, c0)
    \/ Close
    \/ Bytes
    \/ BbLen
    \/ \E k \in ReadLens : Read(k)
    \/ \E offset \in Offsets, whence \in Whences : Seek(offset, whence)
    \/ ReadByte
    \/ UnreadByte
    \/ ReadRune
    \/ UnreadRune
    \/ WriteTo

ReaderSpec == Init /\ [][ReaderNext]_vars

(* ------------------------------ properties ------------------------------ *)

\* the program points of Put, of Push and of the locked section of Put
PutPcs == {"wtr_Lock", "wtr_PushM", "wtr_PushS", "wtr_Store", "Put_Accept"}

PushPcs == {"wtr_PushM", "wtr_PushS"}

LockedPcs == {"wtr_PushM", "wtr_PushS", "wtr_Store"}

AllIdle == \A t \in Threads : pc[t] = "idle"

\* C1: a Put of a non-nil item calls p.pool.Put with it once when Accept
\* holds of the pair its own Push produced and of its size, and not at all
\* otherwise; no other step hands an item to the raw free list.
C1_AcceptDecidesRelease ==
    [][/\ \A t \in Threads :
            (pc[t] = "Put_Accept" /\ pc'[t] = "idle" /\ x[t] # Nil) =>
                LET p == SnapOf(mine[t])
                    ok == Accept(ToFloat64(p[1]), ToFloat64(p[2]),
                                 Sizeof(x[t]))
                IN  /\ done'.handed = (IF ok THEN 1 ELSE 0)
                    /\ pool' = (IF ok THEN pool \cup {x[t]} ELSE pool)
       /\ (\A t \in Threads : ~(pc[t] = "Put_Accept" /\ pc'[t] = "idle"))
              => pool' \subseteq pool]_vars

\* a third Put returned with its item dropped while another Put, whose Push
\* came before, has not returned yet
C1_Witness ==
    /\ done.op = "Put"
    /\ done.x # Nil
    /\ done.handed = 0
    /\ \E u \in Threads : pc[u] = "Put_Accept"

\* C2: no step of a Put(nil) changes the statistics, the snapshot or the
\* raw free list, and the call hands nothing to the raw free list.
C2_NilPutIsNoop ==
    [][\A t \in Threads :
           (pc[t] \in PutPcs /\ x[t] = Nil /\ pc'[t] # pc[t]) =>
               /\ stats' = stats
               /\ rStats' = rStats
               /\ pool' = pool
               /\ (pc'[t] = "idle" => done'.handed = 0)]_vars

\* C3: with the cap disabled, N() is the number of Put calls whose Push
\* has counted, whether the item was then accepted or dropped.
C3_OneUpdatePerPut ==
    MaxN(stats) = 0 =>
        N(stats) = Len(order)
                   - Cardinality({t \in Threads : pc[t] = "wtr_PushM"})

\* three releases returned, the last one dropped as an outlier and counted
C3_Witness ==
    /\ MaxN(stats) = 0
    /\ AllIdle
    /\ done.op = "Put"
    /\ done.handed = 0
    /\ N(stats) = 3

\* C4: when every Put call has returned, as many Pushes have been applied
\* as Put calls were made, and N() is that number when the cap is disabled.
C4_NoLostUpdate ==
    AllIdle =>
        /\ stats.actualN = puts
        /\ MaxN(stats) = 0 => N(stats) = puts

\* all the Put calls have returned after two of them contended for the
\* mutex (the statistics moved on between a Push and its Put's return)
C4_Witness ==
    /\ AllIdle
    /\ puts = MaxPuts
    /\ MaxN(stats) = 0
    /\ done.op = "Put"
    /\ done.mine # stats

\* C5: at most one goroutine is inside the locked section, and outside Push
\* the statistics are those of whole Pushes applied one at a time in the
\* order in which the Put calls acquired the mutex.
C5_LockOrderSerial ==
    /\ Cardinality({t \in Threads : pc[t] \in LockedPcs}) <= 1
    /\ (\A t \in Threads : pc[t] \notin PushPcs) => stats = serial

\* a Put waits for the mutex while another is between two statements of
\* its Push, after an earlier Push of a different size
C5_Witness ==
    /\ Len(order) >= 2
    /\ order[1] # order[2]
    /\ \E t, u \in Threads : pc[t] = "wtr_PushS" /\ pc[u] = "wtr_Lock"

\* C6: a goroutine that holds the mutex is inside the locked section of
\* writeThenRead or of Stats, not where Sizeof, Accept, Create or the raw
\* free list run.
C6_LockOnlyAroundPush ==
    \A t \in Threads :
        pc[t] \in {"idle", "wtr_Lock", "Put_Accept", "new", "new_Create"}
            => statsMu # t

\* a Put is about to call Accept while another goroutine holds the mutex
C6_Witness ==
    \E t, u \in Threads :
        /\ pc[t] = "Put_Accept"
        /\ statsMu = u
        /\ pc[u] \in LockedPcs

\* C7: no goroutine inside Get holds the mutex, and while the mutex is
\* held Get can still be called and its callback can still load the
\* snapshot, create the item and return.
C7_GetNeverLocks ==
    \A t \in Threads :
        /\ pc[t] \in {"new", "new_Create"} => statsMu # t
        /\ statsMu # 0 =>
               /\ pc[t] = "idle" => ENABLED Get(t)
               /\ pc[t] = "new" => ENABLED new(t)

\* a Get is about to load the snapshot while another goroutine is inside
\* the locked section of a Put
C7_Witness ==
    \E t, u \in Threads :
        /\ pc[t] = "new"
        /\ statsMu = u
        /\ pc[u] \in LockedPcs

\* C8: the pair new decodes is the zero pair or the pair of one whole Push.
C8_SnapshotNotTorn ==
    \A t \in Threads :
        pc[t] = "new_Create" =>
            <<mn32[t], sd32[t]>> \in {<<Num(0), Num(0)>>} \cup published

\* new has read a pair with a standard deviation while a Put is inside
\* its locked section
C8_Witness ==
    \E t, u \in Threads :
        /\ pc[t] = "new_Create"
        /\ ~IsNaN(sd32[t])
        /\ mn32[t] # Num(0)
        /\ pc[u] \in LockedPcs

\* C9: once a Put has pushed and no goroutine is inside the locked section
\* of a Put, the snapshot decodes to the float32 mean and standard
\* deviation of the statistics.
C9_SnapshotCurrent ==
    (Len(order) >= 1 /\ \A t \in Threads : pc[t] \notin LockedPcs) =>
        decodeBits(rStats) = SnapOf(stats)

\* the snapshot holds a rounded, non-zero standard deviation
C9_Witness ==
    /\ Len(order) >= 3
    /\ \A t \in Threads : pc[t] \notin LockedPcs
    /\ StdDev(stats)[3] = 2
    /\ decodeBits(rStats)[2] # Num(0)

\* C10: the copy Stats returns is the statistics as they were at
\* construction or after a whole Push.
C10_StatsCopyConsistent ==
    done.op = "Stats" => done.copy \in history

\* Stats returned a copy with a standard deviation while a Put was
\* waiting for the mutex
C10_Witness ==
    /\ done.op = "Stats"
    /\ done.copy.actualN >= 2
    /\ \E u \in Threads : pc[u] = "wtr_Lock"

\* C11: under fair scheduling every call of Put, Get and Stats returns, and
\* the mutex is free whenever no call is in progress.
C11_EveryCallReturns ==
    /\ \A t \in Threads : (pc[t] # "idle") ~> (pc[t] = "idle")
    /\ [](AllIdle => statsMu = 0)

\* a Stats call waits for the mutex that a Put holds inside Push
C11_Witness ==
    \E t, u \in Threads :
        /\ pc[t] = "Stats_Lock"
        /\ statsMu = u
        /\ pc[u] \in PushPcs

\* the sum of a sequence of numbers
RECURSIVE SumSeq(_)
SumSeq(q) == IF q = <<>> THEN Num(0) ELSE Add(q[1], SumSeq(Tail(q)))

\* the arithmetic mean of a non-empty sequence
MeanOf(q) == Div(SumSeq(q), Num(Len(q)))

\* the sum of the squared deviations from the mean
SumSqDev(q) ==
    LET m == MeanOf(q)
    IN  SumSeq([i \in 1..Len(q) |-> Mul(Sub(q[i], m), Sub(q[i], m))])

\* what the accessors of a Stats value return
Obs(sts) == <<N(sts), MaxN(sts), Mean(sts), StdDev(sts)>>

\* the step just taken is a call of the method op on st
StCalls(op) == nops' = nops + 1 /\ lastOp'.op = op

\* C12: whenever the cap is enabled, N() <= MaxN().
C12_CapBoundsN ==
    MaxN(st) >= 1 => N(st) <= MaxN(st)

\* SetMaxN has just cut N() down to a cap below the number of values pushed
C12_Witness ==
    /\ lastOp.op = "SetMaxN"
    /\ MaxN(st) >= 1
    /\ Len(vals) > MaxN(st)
    /\ N(st) = MaxN(st)

\* C13: StdDev() is NaN exactly when fewer than 2 values were pushed since
\* construction or the last Reset, whatever the cap did to N(), and it is 0
\* when 2 or more identical values were pushed.
C13_StdDevNaNIffFewerThanTwo ==
    /\ IsNaN(StdDev(st)) <=> Len(vals) < 2
    /\ (Len(vals) >= 2 /\ \A i \in 1..Len(vals) : vals[i] = vals[1])
           => StdDev(st) = Num(0)

\* a value was pushed while N() is held at a cap of 1, and StdDev() is a
\* number
C13_Witness ==
    /\ lastOp.op = "Push"
    /\ MaxN(st) = 1
    /\ N(st) = 1
    /\ Len(vals) >= 3
    /\ ~IsNaN(StdDev(st))

\* C14, as stated: with 2 or more values pushed, StdDev() is the root of
\* the accumulator divided by the capped count N().
C14_DividesByEffectiveCount ==
    Len(vals) >= 2 => StdDev(st) = Sqrt(Div(st.newS, Num(N(st))))

\* C14, amended: with 2 or more values pushed, StdDev() is the root of the
\* accumulator divided by the number of values pushed since construction
\* or the last Reset, also when the cap keeps N() below that number.
C14_DividesByPushCount ==
    Len(vals) >= 2 => StdDev(st) = Sqrt(Div(st.newS, Num(Len(vals))))

\* the cap keeps N() below the number of values pushed and the accumulator
\* is not 0
C14_Witness ==
    /\ Len(vals) >= 2
    /\ N(st) < Len(vals)
    /\ st.newS # Num(0)

\* C15: while the cap has not been enabled, Mean() is the arithmetic mean
\* of the values pushed and N() is their number.
C15_MeanIsArithmeticMean ==
    (~everCap /\ Len(vals) >= 1) =>
        /\ Mean(st) = MeanOf(vals)
        /\ N(st) = Len(vals)

\* three different values were pushed and their mean is not an integer
C15_Witness ==
    /\ ~everCap
    /\ lastOp.op = "Push"
    /\ Len(vals) = 3
    /\ Cardinality({vals[i] : i \in 1..3}) = 3
    /\ Mean(st)[2] # 1

\* C16: while the cap has not been enabled and 2 or more values were
\* pushed, the accumulator is the sum of the squared deviations from the
\* mean and StdDev() is the root of that sum divided by the number of
\* values.
C16_StdDevIsPopulationStdDev ==
    (~everCap /\ Len(vals) >= 2) =>
        /\ st.newS = SumSqDev(vals)
        /\ StdDev(st) = Sqrt(Div(SumSqDev(vals), Num(Len(vals))))

\* three values, not all the same, were pushed and StdDev() is irrational
C16_Witness ==
    /\ ~everCap
    /\ lastOp.op = "Push"
    /\ Len(vals) >= 3
    /\ StdDev(st)[3] = 2

\* C17: right after Reset() Mean() = 0, StdDev() = NaN and N() = 0, and
\* from then on st answers as a new(Stats) given the same calls.
C17_ResetIsFresh ==
    /\ lastOp.op = "Reset" =>
           /\ Mean(st) = Num(0)
           /\ IsNaN(StdDev(st))
           /\ N(st) = 0
    /\ Obs(st) = Obs(twin)

\* st had a cap and values when it was Reset, and values were pushed and a
\* cap set again afterwards
C17_Witness ==
    /\ resets >= 1
    /\ Len(vals) >= 2
    /\ nops >= 2 + 1 + Len(vals)
    /\ StdDev(st) # Num(0)

\* C18: SetMaxN(v) with v < 1 leaves MaxN() = 0, and every Push made while
\* the cap is disabled adds exactly 1 to N().
C18_BelowOneDisablesCap ==
    [][/\ (StCalls("SetMaxN") /\ Lt(lastOp'.arg, Num(1))) => MaxN(st') = 0
       /\ (StCalls("Push") /\ MaxN(st) = 0) => N(st') = N(st) + 1]_vars

\* N() was cut down to 1, the cap was removed by a SetMaxN below 1, and a
\* Push made N() = 2
C18_Witness ==
    /\ lastOp.op = "Push"
    /\ MaxN(st) = 0
    /\ N(st) = 2
    /\ Len(vals) >= 3

\* C19: normalAccept returns true whenever stdDev is NaN, whatever the
\* mean, the threshold and the item size.
C19_AcceptsWhenStdDevNaN ==
    (call.made /\ IsNaN(call.stdDev)) => call.accept

\* an item far above the mean, with a threshold of 0, accepted because
\* stdDev is NaN
C19_Witness ==
    /\ call.made
    /\ IsNaN(call.stdDev)
    /\ call.thresh = Num(0)
    /\ call.mean = Num(0)
    /\ call.itemSize = Num(38)
    /\ call.accept

\* C20: when stdDev is a number, normalAccept returns true exactly when
\* mean - thresh*stdDev <= itemSize <= mean + thresh*stdDev; with
\* threshold 1, mean 10 and stdDev 3 it accepts 7, 10 and 13 and rejects 0,
\* 6.99 and 13.01.
C20_AcceptsWithinInclusiveBounds ==
    (call.made /\ ~IsNaN(call.stdDev)) =>
        LET span == Mul(call.thresh, call.stdDev)
        IN  /\ call.accept <=>
                   /\ Le(Sub(call.mean, span), call.itemSize)
                   /\ Le(call.itemSize, Add(call.mean, span))
            /\ (call.thresh = Num(1) /\ call.mean = Num(10)
                    /\ call.stdDev = Num(3)) =>
                   /\ call.itemSize \in {Num(7), Num(10), Num(13)}
                          => call.accept
                   /\ call.itemSize \in {Num(0), Rat(699, 100),
                                         Rat(1301, 100)}
                          => ~call.accept

\* the item size is the upper bound itself, and it is accepted
C20_Witness ==
    /\ call.made
    /\ call.thresh = Num(1)
    /\ call.mean = Num(10)
    /\ call.stdDev = Num(3)
    /\ call.itemSize = Num(13)
    /\ call.accept

\* C21: normalCreateSize returns mean when stdDev is NaN, whatever the
\* threshold (mean 42 gives 42), and mean + thresh*stdDev otherwise (mean 3,
\* stdDev 5, threshold 7 gives 38).
C21_CreateSizeIsMeanPlusSpread ==
    call.made =>
        /\ IsNaN(call.stdDev) => call.size = call.mean
        /\ ~IsNaN(call.stdDev) =>
               call.size = Add(call.mean, Mul(call.thresh, call.stdDev))
        /\ (call.mean = Num(42) /\ IsNaN(call.stdDev)) => call.size = Num(42)
        /\ (call.mean = Num(3) /\ call.stdDev = Num(5)
                /\ call.thresh = Num(7)) => call.size = Num(38)

\* stdDev is NaN and the threshold is 7: the size is the mean, 42
C21_Witness ==
    /\ call.made
    /\ call.mean = Num(42)
    /\ IsNaN(call.stdDev)
    /\ call.thresh = Num(7)
    /\ call.size = Num(42)

\* the releases of the ramping run, and what each handed to the raw free list
Script == [i \in 1..6 |-> IF i <= 3 THEN Slice(10, 10) ELSE Slice(20, 20)]

ScriptHanded == <<1, 1, 1, 0, 0, 1>>

\* the sizes of a sequence of items
SizesOf(q) == [i \in 1..Len(q) |-> Sizeof(q[i])]

\* C22: in a sequential run with the cap disabled and threshold 1, the
\* releases of sizes 10, 10, 10, 20, 20, 20 hand the 1st, 2nd, 3rd and 6th
\* item to the raw free list and drop the 4th and 5th, leave N = 6, Mean =
\* 15 and StdDev = 5, and an item created next has capacity 20; an item
\* created after releases have returned has the capacity given by the
\* float32 mean and standard deviation of all the sizes released.
C22_RampingRun ==
    /\ \A i \in 1..Len(order) :
           (i <= 6 /\ SubSeq(order, 1, i) = SubSeq(Script, 1, i))
               => handed[i] = ScriptHanded[i]
    /\ order = Script =>
           /\ N(stats) = 6
           /\ Mean(stats) = Num(15)
           /\ StdDev(stats) = Num(5)
           /\ got.created => got.item.cap = 20
    /\ (got.created /\ Len(order) >= 1) =>
           LET q == SizesOf(order)
               mean == ToFloat32(MeanOf(q))
               sd == ToFloat32(Sqrt(Div(SumSqDev(q), Num(Len(q)))))
               size == IF Len(q) < 2 THEN ToFloat64(mean)
                       ELSE Add(ToFloat64(mean),
                                Mul(Threshold, ToFloat64(sd)))
           IN  got.item = Slice(0, Trunc(size))

\* after the six releases the raw free list was emptied and the next Get
\* created an item of capacity 20
C22_Witness ==
    /\ order = Script
    /\ handed = ScriptHanded
    /\ pool = {}
    /\ got = [item |-> Slice(0, 20), created |-> TRUE]

\* C23: no call of Push, SetMaxN or Reset on the value Stats returned
\* changes the pool's statistics or its snapshot, and a Stats call returns
\* the statistics and changes neither.
C23_StatsCopyIsDetached ==
    [][/\ heldOps' = heldOps + 1 => (stats' = stats /\ rStats' = rStats)
       /\ done'.op = "Stats" =>
              /\ stats' = stats
              /\ rStats' = rStats
              /\ held'.val = stats]_vars

\* the value got from Stats was pushed to and capped, and differs from the
\* pool's statistics, which the snapshot still matches
C23_Witness ==
    /\ heldOps >= 2
    /\ N(stats) = 2
    /\ MaxN(held.val) = 1
    /\ N(held.val) = 1
    /\ Mean(held.val) = Num(9)
    /\ decodeBits(rStats) = SnapOf(stats)

\* C24: every Close of a BufferedReader returns nil and leaves it empty, and
\* a Close that comes after a Close changes nothing: the fields stay zero,
\* no slice and no reader is released, and the pool and its statistics stay
\* as they were
C24_CloseIsIdempotent ==
    [][(ncalls' = ncalls + 1 /\ res'.op = "Close") =>
          /\ res'.err = "nil"
          /\ bb' = ZeroBufferedReader
          /\ (\E i \in 1..Len(fin) : fin[i] = "Close") =>
                 /\ bb' = bb
                 /\ bufLog' = bufLog
                 /\ rdLog' = rdLog
                 /\ rdPool' = rdPool
                 /\ owned' = owned
                 /\ stats' = stats
                 /\ rStats' = rStats
                 /\ pool' = pool]_vars

C24_Witness ==
    /\ fin = <<"Close", "Close">>
    /\ res.op = "Close"
    /\ Len(src.data) = 3
    /\ Len(bufLog) = 1
    /\ Len(rdLog) = 1
    /\ N(stats) = 1

\* C25: when Bytes is the first of the Close and Bytes calls on a
\* BufferedReader of a fresh ReaderBufferer, it returns the buffered data as
\* a slice that is not nil, no slice is put into the pool by it or by any
\* later call, N() of the pool statistics stays 0, and every later Bytes
\* returns nil
C25_BytesHandsTheBufferOver ==
    (fin # <<>> /\ fin[1] = "Bytes") =>
        /\ Len(owned) = 1
        /\ owned[1].data = src.data
        /\ ~owned[1].isNil
        /\ bufLog = <<>>
        /\ pool = {}
        /\ N(stats) = 0
        /\ res.op = "Bytes" =>
               IF Len(fin) = 1
               THEN res.data = src.data /\ ~res.isNil
               ELSE res.data = <<>> /\ res.isNil

C25_Witness ==
    /\ fin = <<"Bytes", "Close", "Bytes">>
    /\ res.op = "Bytes"
    /\ res.isNil
    /\ Len(owned[1].data) = 3
    /\ N(stats) = 0

\* C26: from the first Close or Bytes on, every call of Len, Read, Seek,
\* ReadByte, UnreadByte, ReadRune, UnreadRune and WriteTo on the
\* BufferedReader returns what the same call returns on a bytes.NewReader(nil)
\* that was given the same calls
C26_ClosedActsAsEmptyBytesReader ==
    (fin # <<>> /\ res.op \notin {"Close", "Bytes"}) => res = want

\* C27: once Reader or ReadCloser has returned, the closer (when there is
\* one) was closed exactly once; when the read or the Close failed no
\* BufferedReader is returned and the error wraps exactly the errors that
\* occurred, and otherwise a BufferedReader is returned with no error
C27_ClosedOnceAndEveryErrorWrapped ==
    out.called =>
        LET errs == ({src.readErr} \cup
                     (IF src.closer = "none" THEN {} ELSE {src.closer}))
                    \ {"nil"}
        IN  /\ closes = (IF src.closer = "none" THEN 0 ELSE 1)
            /\ IF errs = {}
               THEN out.br /\ out.wraps = {}
               ELSE ~out.br /\ out.wraps = errs

C27_Witness ==
    /\ out.called
    /\ src.readErr = "errTest"
    /\ src.closer = "errTest2"
    /\ closes = 1
    /\ ~out.br
    /\ out.wraps = {"errTest", "errTest2"}

\* C28: Push adds exactly 1 to N() when the cap is disabled or N() is below
\* MaxN(), leaves N() as it is when the cap is enabled and N() = MaxN(), and
\* adds exactly 1 to the lifetime count in both cases.
C28_PushCountsOnce ==
    [][StCalls("Push") =>
           /\ (MaxN(st) = 0 \/ N(st) < MaxN(st)) => N(st') = N(st) + 1
           /\ (MaxN(st) >= 1 /\ N(st) = MaxN(st)) => N(st') = N(st)
           /\ st'.actualN = st.actualN + 1
           /\ st'.actualN = Len(vals')]_vars

\* two values were pushed while N() was held at a cap of 2
C28_Witness ==
    /\ lastOp.op = "Push"
    /\ MaxN(st) = 2
    /\ N(st) = 2
    /\ st.actualN = 4

\* C29: SetMaxN(m) with m >= 1 makes MaxN() = round(m) and cuts N() down to
\* that cap if it was above it, leaving N() as it is otherwise; no SetMaxN
\* changes Mean(), the accumulator or the lifetime count.
C29_SetMaxNCutsOnlyN ==
    [][StCalls("SetMaxN") =>
           /\ Le(Num(1), lastOp'.arg) =>
                  LET c == Round(lastOp'.arg)
                  IN  /\ MaxN(st') = c
                      /\ N(st') = (IF N(st) > c THEN c ELSE N(st))
           /\ Mean(st') = Mean(st)
           /\ st'.newS = st.newS
           /\ st'.oldS = st.oldS
           /\ st'.actualN = st.actualN]_vars

\* SetMaxN(1.5) stored the cap 2 and cut N() from 3 to 2
C29_Witness ==
    /\ lastOp = [op |-> "SetMaxN", arg |-> Rat(3, 2)]
    /\ MaxN(st) = 2
    /\ N(st) = 2
    /\ Len(vals) = 3
    /\ st.newS # Num(0)

\* C30: from the second Push on, Mean() becomes (oldMean*(N-1) + v) / N
\* with N the capped count after this Push; once N() is held at a cap c the
\* mean moves by (v - oldMean)/c, and with a cap of 1 Mean() is the value
\* just pushed.
C30_MeanWeighsByCappedCount ==
    [][StCalls("Push") =>
           LET v == lastOp'.arg
               n == N(st')
           IN  /\ st.actualN >= 1 =>
                      Mean(st') = Div(Add(Mul(Mean(st), Num(n - 1)), v),
                                      Num(n))
               /\ (st.actualN >= 1 /\ MaxN(st) >= 1 /\ N(st) = MaxN(st)) =>
                      Mean(st') = Add(Mean(st),
                                      Div(Sub(v, Mean(st)), Num(MaxN(st))))
               /\ MaxN(st') = 1 => Mean(st') = v]_vars

\* a third value was pushed while N() was held at a cap of 2, and Mean()
\* is not the arithmetic mean of the three
C30_Witness ==
    /\ lastOp.op = "Push"
    /\ MaxN(st) = 2
    /\ N(st) = 2
    /\ Len(vals) = 3
    /\ Mean(st) # MeanOf(vals)

\* C31: a Get changes neither the statistics (N(), Mean() and StdDev() are
\* what they were) nor the atomic snapshot, and when two Get calls with no
\* Put between them both create their item, the two items have the same
\* capacity
C31_GetLeavesStatsAlone ==
    [][got' # NoGet =>
          /\ stats' = stats
          /\ N(stats') = N(stats)
          /\ Mean(stats') = Mean(stats)
          /\ StdDev(stats') = StdDev(stats)
          /\ rStats' = rStats
          /\ (got.created /\ got'.created) =>
                 got'.item.cap = got.item.cap]_vars

\* two items were released and taken again, and the next Get found the raw
\* free list empty and created an item
C31_Witness ==
    /\ puts = 2
    /\ N(stats) = 2
    /\ pool = {}
    /\ got.created
    /\ got.item.cap = 10

\* C32: every item the pool creates has size 0 by Sizeof, whatever its
\* capacity; and before any Put, Stats returns N = 0, Mean = 0 and StdDev =
\* NaN, while the snapshot decodes to mean 0 and stdDev 0 (not NaN) and a
\* created item has capacity 0
C32_CreatedItemsMeasureZero ==
    /\ got.created => Sizeof(got.item) = Num(0)
    /\ puts = 0 =>
           /\ N(stats) = 0
           /\ done.op = "Stats" =>
                  /\ N(done.copy) = 0
                  /\ Mean(done.copy) = Num(0)
                  /\ IsNaN(StdDev(done.copy))
           /\ decodeBits(rStats) = <<Num(0), Num(0)>>
           /\ ~IsNaN(ToFloat64(decodeBits(rStats)[2]))
           /\ got.created => got.item = Slice(0, 0)

\* Stats was called and then Get, on a pool nothing was released to
C32_Witness ==
    /\ puts = 0
    /\ held.at = "caller"
    /\ IsNaN(StdDev(held.val))
    /\ got = [item |-> Slice(0, 0), created |-> TRUE]

\* C33: over any calls of Close and Bytes on one BufferedReader, release
\* runs exactly once, on the first of them; the buffer is put into the pool
\* at most once, and exactly when that first call is Close; and the pool's
\* N() is then 1, and 0 otherwise, however many Close and Bytes calls follow
C33_ReleasedExactlyOnce ==
    out.br =>
        /\ Len(rdLog) = (IF fin = <<>> THEN 0 ELSE 1)
        /\ Len(putLog) = Len(rdLog)
        /\ Len(bufLog) <= 1
        /\ Len(bufLog) = 1 <=> (fin # <<>> /\ fin[1] = "Close")
        /\ bufLog # <<>> => bufLog[1].data = src.data
        /\ N(stats) = Len(bufLog)
        /\ stats.actualN = Len(bufLog)
        /\ fin # <<>> => bb = ZeroBufferedReader

C33_Witness ==
    /\ fin = <<"Close", "Bytes", "Close">>
    /\ Len(src.data) = 3
    /\ Len(rdLog) = 1
    /\ Len(bufLog) = 1
    /\ N(stats) = 1

\* C34: when Reader or ReadCloser fails, exactly one slice was given to
\* put: the one taken from the pool when the read failed and there is no
\* closer, and the one holding the bytes read otherwise; when it succeeds
\* none is given to put before the first Close or Bytes; and no slice of
\* capacity 0 is ever put into the pool
C34_BufferPutOnceOnFailure ==
    /\ (out.called /\ ~out.br) =>
           /\ Len(putLog) = 1
           /\ IF src.readErr # "nil" /\ src.closer = "none"
              THEN putLog[1] = Buf(<<>>, src.c0)
              ELSE /\ putLog[1].data = src.data
                   /\ putLog[1].cap >= Len(src.data) + MinRead
                   /\ putLog[1].cap >= src.c0
           /\ bufLog = SelectSeq(putLog, LAMBDA b : b.cap > 0)
           /\ N(stats) = Len(bufLog)
    /\ (out.br /\ fin = <<>>) => (putLog = <<>> /\ bufLog = <<>>)
    /\ \A i \in 1..Len(bufLog) : bufLog[i].cap > 0
    /\ \A v \in pool : v.cap > 0
    /\ puts = Len(bufLog)

\* Reader failed to read into a slice of capacity 0: put was given the
\* slice and the pool was not
C34_Witness ==
    /\ out.called
    /\ ~out.br
    /\ src.readErr = "errTest"
    /\ src.closer = "none"
    /\ src.c0 = 0
    /\ Len(putLog) = 1
    /\ bufLog = <<>>
    /\ N(stats) = 0

\* C35: the first Push leaves the accumulator newS at 0, no Push makes it
\* smaller (also while N() is held at the cap), it is never negative, only
\* Push and Reset change it, and StdDev() is a number that is not negative
\* once two values have been pushed
C35_AccumulatorOnlyGrows ==
    [][/\ StCalls("Push") =>
              /\ st.actualN = 0 => st'.newS = Num(0)
              /\ Le(st.newS, st'.newS)
       /\ Le(Num(0), st'.newS)
       /\ st'.newS # st.newS => (StCalls("Push") \/ StCalls("Reset"))
       /\ Len(vals') >= 2 =>
              /\ ~IsNaN(StdDev(st'))
              /\ Le(Num(0), StdDev(st'))]_vars

\* a third value was pushed while N() was held at a cap of 1, and the
\* accumulator is positive
C35_Witness ==
    /\ lastOp.op = "Push"
    /\ MaxN(st) = 1
    /\ N(st) = 1
    /\ Len(vals) = 3
    /\ Lt(Num(0), st.newS)
    /\ Lt(Num(0), StdDev(st))

\* C36: N() is at most the number of values pushed since the last Reset,
\* is 0 exactly when that number is 0 and at least 1 otherwise; so the
\* count the next Push divides by is at least 1 and the mean is a number
C36_CountIsPositiveAfterPush ==
    /\ N(st) <= Len(vals)
    /\ N(st) = 0 <=> Len(vals) = 0
    /\ Len(vals) >= 1 => N(st) >= 1
    /\ N(PushN(st)) >= 1
    /\ ~IsNaN(Mean(st))

\* N() was cut from 3 to 1 by SetMaxN
C36_Witness ==
    /\ lastOp.op = "SetMaxN"
    /\ MaxN(st) = 1
    /\ N(st) = 1
    /\ Len(vals) = 3

\* the smallest and the largest of a non-empty sequence of numbers
RECURSIVE MinOf(_)
MinOf(q) ==
    IF Len(q) = 1 THEN q[1]
    ELSE LET m == MinOf(Tail(q)) IN IF Le(q[1], m) THEN q[1] ELSE m

RECURSIVE MaxOf(_)
MaxOf(q) ==
    IF Len(q) = 1 THEN q[1]
    ELSE LET m == MaxOf(Tail(q)) IN IF Le(m, q[1]) THEN q[1] ELSE m

\* C37: once a value has been pushed since the last Reset, Mean() is at
\* least the smallest and at most the largest value pushed since then,
\* whatever the cap and whenever N() was cut
C37_MeanWithinPushedRange ==
    Len(vals) >= 1 =>
        /\ Le(MinOf(vals), Mean(st))
        /\ Le(Mean(st), MaxOf(vals))

\* values were pushed after N() was cut below their number, and Mean() is
\* strictly between the smallest and the largest and is not their mean
C37_Witness ==
    /\ lastOp.op = "Push"
    /\ everCap
    /\ Len(vals) = 4
    /\ N(st) < Len(vals)
    /\ Mean(st) # MeanOf(vals)
    /\ Lt(MinOf(vals), Mean(st))
    /\ Lt(Mean(st), MaxOf(vals))

\* C38: Reset leaves MaxN() = 0 whatever the cap was, and as long as no
\* SetMaxN has enabled the cap since the last Reset, MaxN() is 0 and every
\* value pushed since then counts in N()
C38_ResetClearsCap ==
    /\ lastOp.op = "Reset" => (MaxN(st) = 0 /\ N(st) = 0)
    /\ ~everCap => (MaxN(st) = 0 /\ N(st) = Len(vals))

\* a cap of 1 was cleared by Reset and two values pushed since count both
C38_Witness ==
    /\ cleared = 1
    /\ ~everCap
    /\ lastOp.op = "Push"
    /\ MaxN(st) = 0
    /\ Len(vals) = 2
    /\ N(st) = 2

\* C39: decodeBits followed by encodeBits gives back every word, and
\* encodeBits followed by decodeBits gives back every pair of bit patterns;
\* the first pattern (the mean) is the low half of the word and the second
\* (the stdDev) the high half
C39_EncodingIsBijection ==
    conv.op # "none" =>
        /\ conv.u2 = conv.u
        /\ conv.lo2 = conv.lo
        /\ conv.hi2 = conv.hi
        /\ conv.lo = conv.u % Half
        /\ conv.hi = conv.u \div Half
        /\ conv.u \in 0..(Half * Half - 1)
        /\ conv.lo \in 0..(Half - 1)
        /\ conv.hi \in 0..(Half - 1)

\* the pattern with every bit set went into the low half and the sign bit
\* alone into the high half, and both came back
C39_Witness ==
    /\ conv.op = "encodeBits"
    /\ conv.lo = Half - 1
    /\ conv.hi = SignBit
    /\ conv.u = SignBit * Half + Half - 1
    /\ conv.lo2 = Half - 1
    /\ conv.hi2 = SignBit

====
